---- MODULE Spec2Model ----
(***************************************************************************)
(* Model of pysolrq's bulk indexing pipeline: SolrControl.start_index and  *)
(* the helpers it drives (src/pysolrq/solr.py).                            *)
(*                                                                         *)
(* Text is modelled as a sequence of one-character strings, so that        *)
(* str.strip and str.join are computed character by character.  A payload  *)
(* is a sequence of tokens: the literal pieces of markup the code          *)
(* concatenates, the field names, and the characters of the values.        *)
(* Dictionaries keep insertion order (CPython 3.7+): a dict is a sequence  *)
(* of <<key, value>> pairs with at most one pair per key.                  *)
(***************************************************************************)
EXTENDS Integers, Sequences, FiniteSets, TLC

(***************************************************************************)
(* Bounds and input sets                                                   *)
(***************************************************************************)
MaxRowLen == 3      \* values per row, encoder specification
MaxRows == 2        \* rows read from the file in one start_index call
MaxFields == 4      \* length the caller's fields list may grow to over the calls
PoolSize == 2       \* largest cpu_count of the machines considered
MaxFound == 4       \* largest numFound, max_rows and num_rows of a fetch

Whitespace == {" ", "\t", "\n"}

\* raw values of a csv row, as csv.reader hands them over
RawValues ==
    { <<"a">>, <<" ", "a">>, <<"b", " ">>, <<" ", "a", " ", "b", "\t">>, <<" ">> }

\* field-name lists a caller passes as `fields`
Schemas ==
    { <<"food">>, <<"food", "talk">>, <<"id", "food">>, <<"food", "food">> }

SeqsUpTo(S, n) == UNION { [1..k -> S] : k \in 0..n }

(***************************************************************************)
(* Pure helpers of SolrControl                                             *)
(***************************************************************************)
RECURSIVE lstrip(_)
lstrip(s) ==
    IF s # <<>> /\ Head(s) \in Whitespace THEN lstrip(Tail(s)) ELSE s

RECURSIVE rstrip(_)
rstrip(s) ==
    IF s # <<>> /\ s[Len(s)] \in Whitespace
    THEN rstrip(SubSeq(s, 1, Len(s) - 1))
    ELSE s

\* str.strip(): leading and trailing whitespace removed
strip_lonly(s) == lstrip(s)
strip(s) == rstrip(lstrip(s))

\* SolrControl._clean
clean(values) == [i \in 1..Len(values) |-> strip(values[i])]

\* "|".join(values)
RECURSIVE join(_)
join(values) ==
    IF values = <<>> THEN <<>>
    ELSE IF Len(values) = 1 THEN values[1]
    ELSE values[1] \o <<"|">> \o join(Tail(values))

\* d[k] = v on an insertion-ordered dict
DictSet(d, k, v) ==
    IF \E i \in 1..Len(d) : d[i][1] = k
    THEN [i \in 1..Len(d) |-> IF d[i][1] = k THEN <<k, v>> ELSE d[i]]
    ELSE Append(d, <<k, v>>)

DictKeys(d) == { d[i][1] : i \in 1..Len(d) }
DictGet(d, k) == d[CHOOSE i \in 1..Len(d) : d[i][1] = k][2]

\* the loop of _get_data: d[fields[idx]] = value, IndexError past the list
RECURSIVE FillDict(_, _, _, _)
FillDict(d, values, fields, idx) ==
    IF idx > Len(values) THEN [err |-> "none", d |-> d]
    ELSE IF idx > Len(fields) THEN [err |-> "IndexError", d |-> d]
    ELSE FillDict(DictSet(d, fields[idx], values[idx]), values, fields, idx + 1)

\* "<field name='{0}'>{1}</field>".format(k, v)
FieldElem(k, v) == <<"<field name='", k, "'>">> \o v \o <<"</field>">>

RECURSIVE DocItems(_)
DocItems(d) ==
    IF d = <<>> THEN <<>>
    ELSE FieldElem(d[1][1], d[1][2]) \o DocItems(Tail(d))

\* SolrControl._get_doc
get_doc(d, unique_id, uuid) ==
    LET docs0 == IF unique_id THEN FieldElem("id", uuid) ELSE <<>>
    IN  <<"<doc>">> \o docs0 \o DocItems(d) \o <<"</doc>">>

\* SolrControl._get_data: the payload, or the IndexError of fields[idx]
get_data(values, fields, unique_id, uuid) ==
    LET r == FillDict(<<>>, values, fields, 1)
    IN  IF r.err # "none"
        THEN [err |-> r.err, d |-> r.d, data |-> <<>>]
        ELSE [err |-> "none", d |-> r.d,
              data |-> <<"<add>">> \o get_doc(r.d, unique_id, uuid) \o <<"</add>">>]

\* _data_iter line 429-430: fields.append("row") on the caller's list
AppendRow(fields, keep_row) ==
    IF keep_row THEN Append(fields, "row") ELSE fields

\* _data_iter line 434-437: clean, then append the pipe-joined row
RowValues(raw, keep_row) ==
    LET values == clean(raw)
    IN  IF keep_row THEN Append(values, join(values)) ELSE values

\* one iteration of _data_iter's loop on a row, with the list as it is now
EncodeRow(raw, fields, unique_id, keep_row, uuid) ==
    get_data(RowValues(raw, keep_row), fields, unique_id, uuid)

\* uuid.uuid4(): the k-th identifier drawn, distinct for distinct k
Uuid4(k) == <<"uuid-" \o ToString(k)>>

\* SolrControl._xmltostr: each line without its blanks at both ends and
\* without its trailing newlines, concatenated
RECURSIVE lstrip_sp(_)
lstrip_sp(s) == IF s # <<>> /\ Head(s) = " " THEN lstrip_sp(Tail(s)) ELSE s

RECURSIVE rstrip_ch(_, _)
rstrip_ch(s, c) ==
    IF s # <<>> /\ s[Len(s)] = c THEN rstrip_ch(SubSeq(s, 1, Len(s) - 1), c) ELSE s

RECURSIVE xmltostr(_)
xmltostr(lines) ==
    IF lines = <<>> THEN <<>>
    ELSE rstrip_ch(rstrip_ch(lstrip_sp(lines[1]), " "), "\n") \o xmltostr(Tail(lines))

(***************************************************************************)
(* Inputs of the pipeline specification                                    *)
(***************************************************************************)
\* rows csv.reader can hand over: one, two and three values
PipeRows ==
    { << <<" ", "a">> >>,
      << <<"a">>, <<"b", " ">> >>,
      << <<"a">>, <<"b">>, <<"a">> >> }

PipeSchemas == { <<"food", "talk">>, <<"id", "food">> }

FileFormats == {"solrxml", "csv", "json"}
Delimiters == {",", "None"}

\* a solrxml file, line by line
XmlLines == << <<" ", "<add>", "\n">>, <<" ", "<doc/>", " ", "\n">>, <<"</add>", "\n">> >>

\* what requests.post can do: a 2xx response, a non-success response, or a
\* transport exception (ConnectionError, Timeout)
PostOutcomes == {"ok", "status", "exception"}

Finished == {"ok", "status", "exception"}

(***************************************************************************)
(* State                                                                   *)
(***************************************************************************)
VARIABLES
    pc,         \* where the caller's thread is in start_index
    args,       \* the arguments of the current call
    fields,     \* the caller's list object passed as `fields`
    pool,       \* the mp.Pool of the current call
    ncpu,       \* os.cpu_count(): the worker processes mp.Pool() starts
    genStarted, \* the _data_iter generator has run its first next()
    fileOpened, \* open(file_path) has been called in this call
    rows,       \* raw rows read from the file in this call
    jobs,       \* jobs handed to pool.apply_async in this call
    syncPosts,  \* payloads POSTed by the caller's own thread in this call
    err,        \* the exception start_index raised, "none" if none
    nextId,     \* uuid4 values drawn in this call
    encIn,      \* encoder specification: the inputs
    encOut,     \* encoder specification: the result
    coll,       \* a SolrCollection object: max_rows and num_found
    fetchOut    \* the last fetch on it: its num_rows argument and its result

pipeVars == <<pc, args, fields, pool, ncpu, genStarted, fileOpened, rows,
              jobs, syncPosts, err, nextId>>
encVars == <<encIn, encOut>>
fetchVars == <<coll, fetchOut>>
vars == <<pc, args, fields, pool, ncpu, genStarted, fileOpened, rows,
          jobs, syncPosts, err, nextId, encIn, encOut, coll, fetchOut>>

NoArgs ==
    [file_format |-> "solrxml", delimiter |-> "None", fieldsGiven |-> FALSE,
     unique_id |-> TRUE, keep_row |-> FALSE]

NoColl == [max_rows |-> 0, num_found |-> 0]

NoEnc == [raw |-> <<>>, fields |-> <<>>, unique_id |-> FALSE, keep_row |-> FALSE]

Init ==
    /\ pc = "idle"
    /\ args = NoArgs
    /\ fields \in PipeSchemas
    /\ pool = "none"
    /\ ncpu \in 1..PoolSize
    /\ genStarted = FALSE
    /\ fileOpened = FALSE
    /\ rows = <<>>
    /\ jobs = <<>>
    /\ syncPosts = <<>>
    /\ err = "none"
    /\ nextId = 0
    /\ encIn = NoEnc
    /\ encOut = [state |-> "idle"]
    /\ coll = NoColl
    /\ fetchOut = [state |-> "idle"]

(***************************************************************************)
(* start_index, the caller's thread                                        *)
(***************************************************************************)
\* line 322-345: a call; pool = mp.Pool().  Each call has its own pool and
\* its own worker processes; the model follows the pool of the latest call.
Call ==
    /\ pc \in {"idle", "returned", "raised"}
    /\ \E ff \in FileFormats, dl \in Delimiters, fg \in BOOLEAN,
          uid \in BOOLEAN, kr \in BOOLEAN :
          /\ kr => Len(fields) < MaxFields
          /\ args' = [file_format |-> ff, delimiter |-> dl, fieldsGiven |-> fg,
                      unique_id |-> uid, keep_row |-> kr]
    /\ pool' = "open"
    /\ pc' = "xmlif"
    /\ genStarted' = FALSE
    /\ fileOpened' = FALSE
    /\ rows' = <<>>
    /\ jobs' = <<>>
    /\ syncPosts' = <<>>
    /\ err' = "none"
    /\ nextId' = 0
    /\ UNCHANGED <<fields, ncpu, encVars, fetchVars>>   \* the caller passes its list again

Raise(e) ==
    /\ pc' = "raised"
    /\ err' = e

\* line 347-349: the solrxml branch, run by the caller's own thread
XmlBranch ==
    /\ pc = "xmlif"
    /\ \/ /\ args.file_format # "solrxml"
          /\ pc' = "csvif"
          /\ UNCHANGED <<fileOpened, syncPosts, err>>
       \/ /\ args.file_format = "solrxml"
          /\ fileOpened' = TRUE
          /\ \/ \* open(file_path, 'r') fails
                /\ Raise("IOError")
                /\ UNCHANGED syncPosts
             \/ \E outcome \in PostOutcomes :
                   /\ syncPosts' = Append(syncPosts, xmltostr(XmlLines))
                   /\ IF outcome = "exception"
                      THEN Raise("ConnectionError")
                      ELSE pc' = "csvif" /\ UNCHANGED err
    /\ UNCHANGED <<args, fields, pool, genStarted, rows, jobs, nextId, ncpu, encVars, fetchVars>>

\* line 352: both delimiter and fields are given
ConfigOk_either(a) == a.delimiter # "None" \/ a.fieldsGiven
ConfigOk(a) == a.delimiter # "None" /\ a.fieldsGiven

\* line 351-356 and 362-363: the csv branch up to the creation of the
\* generator (no code of _data_iter runs yet); any other format falls
\* through to the end of the function
CsvBranch ==
    /\ pc = "csvif"
    /\ \/ /\ args.file_format # "csv"
          /\ pc' = "returned"
          /\ UNCHANGED err
       \/ /\ args.file_format = "csv"
          /\ ConfigOk(args)
          /\ pc' = "loop"
          /\ UNCHANGED err
       \/ /\ args.file_format = "csv"
          /\ ~ConfigOk(args)
          /\ Raise("TypeError")     \* raise of a str
    /\ UNCHANGED <<args, fields, pool, genStarted, fileOpened, rows, jobs,
                   syncPosts, nextId, ncpu, encVars, fetchVars>>

\* the list _get_data indexes: after the first next() it carries "row"
FieldsAtNext == IF genStarted THEN fields ELSE AppendRow(fields, args.keep_row)

\* pool.apply_async(self._post_to_collection, args=(data,)), line 358
Submit_twice(js, data) ==
    Append(Append(js, [data |-> data, st |-> "pending", posts |-> 0]),
           [data |-> data, st |-> "pending", posts |-> 0])
Submit_skipfirst(js, data) ==
    IF js = <<>> /\ rows = <<>> THEN js
    ELSE Append(js, [data |-> data, st |-> "pending", posts |-> 0])
Submit(js, data) == Append(js, [data |-> data, st |-> "pending", posts |-> 0])

\* line 357-358: one turn of the for loop: next() on the generator reads and
\* encodes one row (on the first turn it first appends "row" and opens the
\* file), and the loop body submits the payload
NextRow ==
    /\ pc = "loop"
    /\ Len(rows) < MaxRows
    /\ genStarted' = TRUE
    /\ fileOpened' = TRUE
    /\ fields' = FieldsAtNext
    /\ \E raw \in PipeRows :
          LET uuid == Uuid4(nextId + 1)
              r == EncodeRow(raw, FieldsAtNext, args.unique_id, args.keep_row, uuid)
          IN  /\ rows' = Append(rows, raw)
              /\ IF r.err # "none"
                 THEN /\ Raise(r.err)
                      /\ UNCHANGED <<jobs, nextId>>
                 ELSE /\ jobs' = Submit(jobs, r.data)
                      /\ nextId' = IF args.unique_id THEN nextId + 1 ELSE nextId
                      /\ UNCHANGED <<pc, err>>
    /\ UNCHANGED <<args, pool, syncPosts, ncpu, encVars, fetchVars>>

\* line 457-460: open(filename) fails on the first next(), or reading a
\* line fails (OSError, UnicodeDecodeError) on any next()
SourceError ==
    /\ pc = "loop"
    /\ genStarted' = TRUE
    /\ fileOpened' = TRUE
    /\ fields' = FieldsAtNext
    /\ Raise("IOError")
    /\ UNCHANGED <<args, pool, rows, jobs, syncPosts, nextId, ncpu, encVars, fetchVars>>

\* line 357, 360: the generator is exhausted; pool.close()
EndOfFile ==
    /\ pc = "loop"
    /\ genStarted' = TRUE
    /\ fileOpened' = TRUE
    /\ fields' = FieldsAtNext
    /\ pool' = "closed"
    /\ pc' = "join"
    /\ UNCHANGED <<args, rows, jobs, syncPosts, err, nextId, ncpu, encVars, fetchVars>>

\* line 361: pool.join() returns once the workers have run every job
JoinReady_nowait(js) == TRUE
JoinReady_allok(js) == \A i \in 1..Len(js) : js[i].st = "ok"
JoinReady_needsjob(js) == js # <<>> /\ \A i \in 1..Len(js) : js[i].st \in Finished
JoinReady(js) == \A i \in 1..Len(js) : js[i].st \in Finished

PoolJoin ==
    /\ pc = "join"
    /\ JoinReady(jobs)
    /\ pool' = "joined"
    /\ pc' = "returned"
    /\ UNCHANGED <<args, fields, genStarted, fileOpened, rows, jobs,
                   syncPosts, err, nextId, ncpu, encVars, fetchVars>>

(***************************************************************************)
(* The workers of the pool                                                 *)
(***************************************************************************)
InFlight(js) == { i \in 1..Len(js) : js[i].st = "inflight" }
Pending(js) == { i \in 1..Len(js) : js[i].st = "pending" }

\* a free worker takes the oldest queued task and calls
\* _post_to_collection(data): requests.post, line 369-371
\* a worker process runs one task at a time: one is free while fewer than
\* cpu_count tasks are running
HasFreeWorker_always(js) == TRUE
HasFreeWorker(js) == Cardinality(InFlight(js)) < ncpu

WorkerStart ==
    /\ pool \in {"open", "closed"}
    /\ Pending(jobs) # {}
    /\ HasFreeWorker(jobs)
    /\ LET i == CHOOSE k \in Pending(jobs) : \A m \in Pending(jobs) : k <= m
       IN  jobs' = [jobs EXCEPT ![i].st = "inflight", ![i].posts = @ + 1]
    /\ UNCHANGED <<pc, args, fields, pool, genStarted, fileOpened, rows,
                   syncPosts, err, nextId, ncpu, encVars, fetchVars>>

\* the POST ends; the pool's worker catches an exception of the task and
\* stores it in the AsyncResult, which start_index never reads
JobEnd_abort(js, i, outcome) ==
    [k \in 1..Len(js) |->
        IF k = i THEN [js[k] EXCEPT !.st = outcome]
        ELSE IF outcome # "ok" /\ js[k].st \in {"pending", "inflight"}
             THEN [js[k] EXCEPT !.st = "exception"]
             ELSE js[k]]
JobEnd_retry(js, i, outcome) ==
    [js EXCEPT ![i].st = IF outcome = "ok" THEN "ok" ELSE "pending"]
JobEnd(js, i, outcome) == [js EXCEPT ![i].st = outcome]

WorkerDone ==
    /\ \E i \in InFlight(jobs), outcome \in PostOutcomes :
          jobs' = JobEnd(jobs, i, outcome)
    /\ UNCHANGED <<pc, args, fields, pool, genStarted, fileOpened, rows,
                   syncPosts, err, nextId, ncpu, encVars, fetchVars>>

\* start_index has ended without pool.close()/pool.join(): the Pool object
\* is unreferenced; when it is finalized the workers are terminated, queued
\* tasks are dropped and running ones are killed
PoolFinalize ==
    /\ pc \in {"returned", "raised"}
    /\ pool = "open"
    /\ pool' = "terminated"
    /\ jobs' = [k \in 1..Len(jobs) |->
                  IF jobs[k].st \in {"pending", "inflight"}
                  THEN [jobs[k] EXCEPT !.st = "killed"] ELSE jobs[k]]
    /\ UNCHANGED <<pc, args, fields, genStarted, fileOpened, rows,
                   syncPosts, err, nextId, ncpu, encVars, fetchVars>>

Next ==
    \/ Call
    \/ XmlBranch
    \/ CsvBranch
    \/ NextRow
    \/ SourceError
    \/ EndOfFile
    \/ PoolJoin
    \/ WorkerStart
    \/ WorkerDone
    \/ PoolFinalize

Spec == Init /\ [][Next]_vars

\* one start_index call on a fresh SolrControl, with the scheduling the
\* pool gives: a queued task is taken by a free worker, a POST that was
\* issued ends, and pool.join() returns once it can
FirstCall == pc = "idle" /\ Call

RunNext ==
    \/ FirstCall
    \/ XmlBranch
    \/ CsvBranch
    \/ NextRow
    \/ SourceError
    \/ EndOfFile
    \/ PoolJoin
    \/ WorkerStart
    \/ WorkerDone
    \/ PoolFinalize

RunSpec == Init /\ [][RunNext]_vars

FairRunSpec ==
    /\ Init /\ [][RunNext]_vars
    /\ WF_vars(WorkerStart) /\ WF_vars(WorkerDone) /\ WF_vars(PoolJoin)

(***************************************************************************)
(* Encoder specification: one row through one turn of _data_iter's loop,   *)
(* the inputs drawn from bounded sets                                      *)
(***************************************************************************)
EncRows == SeqsUpTo(RawValues, MaxRowLen)

EncInit ==
    /\ pc = "idle"
    /\ args = NoArgs
    /\ fields = <<"food", "talk">>
    /\ pool = "none"
    /\ ncpu = 1
    /\ genStarted = FALSE
    /\ fileOpened = FALSE
    /\ rows = <<>>
    /\ jobs = <<>>
    /\ syncPosts = <<>>
    /\ err = "none"
    /\ nextId = 0
    /\ encIn \in [raw : EncRows, fields : Schemas,
                  unique_id : BOOLEAN, keep_row : BOOLEAN]
    /\ encOut = [state |-> "idle"]
    /\ coll = NoColl
    /\ fetchOut = [state |-> "idle"]

\* line 429-440 on one row: the list after the append, and the payload or
\* the error of _get_data
Encode ==
    /\ encOut.state = "idle"
    /\ LET fl == AppendRow(encIn.fields, encIn.keep_row)
           r == EncodeRow(encIn.raw, fl, encIn.unique_id, encIn.keep_row, Uuid4(1))
       IN  encOut' = [state |-> "done", fields |-> fl, err |-> r.err,
                      d |-> r.d, data |-> r.data]
    /\ UNCHANGED <<pipeVars, encIn, fetchVars>>

EncNext == Encode

EncSpec == EncInit /\ [][EncNext]_vars

(***************************************************************************)
(* Properties of the pipeline (specification Spec)                         *)
(***************************************************************************)
IsCsv == args.file_format = "csv"
JobIdx == 1..Len(jobs)

\* C1: in csv mode, when start_index has returned, every job it submitted
\* to the pool has completed, with success or with an error; none is still
\* queued or in flight.
C1_ReturnAfterAllJobs ==
    (IsCsv /\ pc = "returned") =>
        \A i \in JobIdx : jobs[i].st \in {"ok", "status", "exception"}

C1_Witness ==
    /\ IsCsv /\ pc = "returned" /\ Len(jobs) >= 2
    /\ \E i \in JobIdx : jobs[i].st = "exception"

\* C2: in csv mode a job whose POST fails (exception or non-success status)
\* changes nothing but its own state: the caller's thread, the pool and
\* every other job are left as they were; no transport error reaches the
\* caller, and at the return every submitted job has been run exactly once.
C2_Inv ==
    IsCsv =>
        /\ err # "ConnectionError"
        /\ pc = "returned" =>
              \A i \in JobIdx : /\ jobs[i].st \in {"ok", "status", "exception"}
                                /\ jobs[i].posts = 1

C2_Step ==
    \A i \in JobIdx :
        (/\ jobs[i].st = "inflight"
         /\ i \in 1..Len(jobs')
         /\ jobs'[i].st \in {"status", "exception"})
        => /\ pc' = pc /\ err' = err /\ pool' = pool
           /\ Len(jobs') = Len(jobs)
           /\ \A k \in JobIdx : k # i => jobs'[k] = jobs[k]

C2_FailedJobIsolated == []C2_Inv /\ [][C2_Step]_vars

C2_Witness ==
    /\ IsCsv /\ pc = "returned"
    /\ \E i, k \in JobIdx : jobs[i].st = "exception" /\ jobs[k].st = "ok"

\* C3: a transport error never reaches the caller of start_index, in
\* either input mode.
C3_TransportErrorNotSurfaced == err # "ConnectionError"

\* C8: a csv call without delimiter or without fields ends with an error
\* raised to the caller, and at no moment of it has the file been opened, a
\* job been submitted or a POST been issued.
C8_ConfigErrorBeforeWork ==
    (IsCsv /\ (args.delimiter = "None" \/ ~args.fieldsGiven)) =>
        /\ pc \in {"xmlif", "csvif", "raised"}
        /\ pc = "raised" => err = "TypeError"
        /\ ~fileOpened
        /\ jobs = <<>>
        /\ syncPosts = <<>>

C8_Witness ==
    /\ IsCsv /\ args.delimiter # "None" /\ ~args.fieldsGiven
    /\ pc = "raised" /\ err = "TypeError"

\* the payloads the code builds for a row, over the identifiers drawn so far
IsEncodingOf(data, raw) ==
    \E k \in 0..nextId :
        LET r == EncodeRow(raw, fields, args.unique_id, args.keep_row, Uuid4(k))
        IN  r.err = "none" /\ r.data = data

C10_OneJobPerRowOnePost ==
    (IsCsv /\ err = "none" /\ pc \in {"loop", "join", "returned"}) =>
        /\ Len(jobs) = Len(rows)
        /\ \A i \in JobIdx :
              /\ IsEncodingOf(jobs[i].data, rows[i])
              /\ jobs[i].posts <= 1
              /\ jobs[i].st \in {"ok", "status", "exception"} => jobs[i].posts = 1
              /\ pc = "returned" => jobs[i].posts = 1

C10_Witness ==
    /\ IsCsv /\ pc = "returned" /\ Len(jobs) >= 2
    /\ rows[1] # rows[2]
    /\ \E i, k \in JobIdx : jobs[i].st = "status" /\ jobs[k].st = "ok"

(***************************************************************************)
(* Properties of the encoder (specification EncSpec)                       *)
(***************************************************************************)
EncDone == encOut.state = "done"
NamesOf(fl) == { fl[i] : i \in 1..Len(fl) }
Distinct(fl) == \A i, j \in 1..Len(fl) : fl[i] = fl[j] => i = j

\* C4: a row with more values than the schema has names is encoded without
\* error, the excess values dropped: the record has the keys of the row cut
\* to the schema's length, that is every name of the schema.
C4_ExcessValuesDropped ==
    (EncDone /\ Len(encIn.raw) > Len(encIn.fields)) =>
        /\ encOut.err = "none"
        /\ DictKeys(encOut.d) = NamesOf(encOut.fields)

\* C5: with keep_row, for every row that fits the schema (shorter rows
\* included), the record has the key `row` and its value is the cleaned
\* values joined by "|".
C5_RowKeyHoldsJoinedRow ==
    (EncDone /\ encIn.keep_row /\ Len(encIn.raw) <= Len(encIn.fields)) =>
        /\ encOut.err = "none"
        /\ "row" \in DictKeys(encOut.d)
        /\ DictGet(encOut.d, "row") = join(clean(encIn.raw))

\* the number of <field name='id'> elements of a payload
IdElems(data) ==
    { p \in 1..(Len(data) - 1) : data[p] = "<field name='" /\ data[p + 1] = "id" }

\* C6: with unique_id and a schema that has a field named `id`, the
\* document carries exactly one `id` element, and it holds the generated
\* identifier.
C6_SingleGeneratedId ==
    (EncDone /\ encIn.unique_id /\ "id" \in NamesOf(encIn.fields)
        /\ encOut.err = "none") =>
        /\ Cardinality(IdElems(encOut.data)) = 1
        /\ \A p \in IdElems(encOut.data) : encOut.data[p + 3] = Uuid4(1)[1]

\* a value without its leading and trailing whitespace, said directly
Trimmed(s) ==
    LET solid == { i \in 1..Len(s) : s[i] \notin {" ", "\t", "\n"} }
    IN  IF solid = {} THEN <<>>
        ELSE SubSeq(s, CHOOSE a \in solid : \A x \in solid : a <= x,
                       CHOOSE b \in solid : \A x \in solid : x <= b)

RECURSIVE ExpectedFields(_, _, _)
ExpectedFields(raw, fl, i) ==
    IF i > Len(raw) THEN <<>>
    ELSE <<"<field name='", fl[i], "'>">> \o Trimmed(raw[i]) \o <<"</field>">>
         \o ExpectedFields(raw, fl, i + 1)

\* C7: without unique_id and keep_row, for a row that fits a schema of
\* distinct names, the payload is <add><doc>, then one
\* <field name='K'>V</field> per position of the row, K the schema's name at
\* that position and V the value there without its leading and trailing
\* whitespace, in schema order, then </doc></add>.
C7_PayloadExact ==
    (EncDone /\ ~encIn.unique_id /\ ~encIn.keep_row
        /\ Len(encIn.raw) <= Len(encIn.fields) /\ Distinct(encIn.fields)) =>
        /\ encOut.err = "none"
        /\ encOut.data = <<"<add>", "<doc>">>
                         \o ExpectedFields(encIn.raw, encIn.fields, 1)
                         \o <<"</doc>", "</add>">>

C7_Witness ==
    /\ EncDone /\ ~encIn.unique_id /\ ~encIn.keep_row
    /\ encIn.fields = <<"food", "talk">>
    /\ encIn.raw = << <<" ", "a", " ", "b", "\t">>, <<"b", " ">> >>
    /\ encOut.data = <<"<add>", "<doc>", "<field name='", "food", "'>",
                       "a", " ", "b", "</field>", "<field name='", "talk", "'>",
                       "b", "</field>", "</doc>", "</add>">>

(***************************************************************************)
(* Properties of the worker pool in one call (RunSpec, FairRunSpec)         *)
(***************************************************************************)
\* C11: at every moment of a csv run the POSTs in flight are at most the
\* pool's worker processes, however many jobs have been submitted; and the
\* submitting loop is never held up by the jobs: while the loop runs, its
\* next turn can be taken whatever state the earlier jobs are in.
C11_InFlightBoundedSubmitFree ==
    IsCsv =>
        /\ Cardinality({ i \in JobIdx : jobs[i].st = "inflight" }) <= ncpu
        /\ (pc = "loop" /\ Len(rows) < MaxRows) => ENABLED NextRow

\* every worker is busy and a submitted job waits in the queue
C11_Witness ==
    /\ IsCsv
    /\ Cardinality({ i \in JobIdx : jobs[i].st = "inflight" }) = ncpu
    /\ \E i \in JobIdx : jobs[i].st = "pending"
    /\ pc = "loop"

\* C12: in a csv run whose row source has been read to its end, with
\* every POST ending sooner or later, start_index returns, and when it has
\* returned every submitted job has finished, in whatever order the jobs
\* ended.
C12_DrainAndJoin ==
    (IsCsv /\ pc = "join") ~>
        (pc = "returned" /\ \A i \in JobIdx : jobs[i].st \in {"ok", "status", "exception"})

\* the second job has ended, with a failure, while the first is still
\* running and start_index waits in pool.join()
C12_Witness ==
    /\ IsCsv /\ pc = "join" /\ Len(jobs) >= 2
    /\ jobs[1].st = "inflight" /\ jobs[2].st = "exception"

\* C13: a csv run whose row source yields no row returns without error,
\* with no job submitted and no POST issued; pool.join() has nothing to
\* wait for.
C13_EmptySourceCompletes ==
    (IsCsv /\ rows = <<>>) =>
        /\ pc = "join" => ENABLED PoolJoin
        /\ pc \in {"join", "returned"} =>
              /\ err = "none"
              /\ jobs = <<>>
              /\ syncPosts = <<>>

C13_Witness ==
    IsCsv /\ rows = <<>> /\ pc = "returned" /\ pool = "joined" /\ fileOpened

(***************************************************************************)
(* Properties of a start_index call as a whole (specification Spec)        *)
(***************************************************************************)
\* C15: every call, whatever file_format it is given, runs exactly one of
\* the two modes: never a whole-file POST together with row reading, and a
\* call that has returned has either issued the one whole-file POST and
\* read no row, or run the row loop and issued no POST of its own.
C15_ExactlyOneMode ==
    /\ ~(syncPosts # <<>> /\ (genStarted \/ rows # <<>> \/ jobs # <<>>))
    /\ pc = "returned" =>
          \/ Len(syncPosts) = 1 /\ ~genStarted
          \/ syncPosts = <<>> /\ genStarted

\* C16: when a call has ended, by return or by exception, its pool has
\* been closed and joined and none of its jobs is still queued or running.
C16_PoolJoinedAtExit ==
    pc \in {"returned", "raised"} =>
        /\ pool = "joined"
        /\ \A i \in JobIdx : jobs[i].st \notin {"pending", "inflight"}

\* C17: no step of start_index changes the caller's fields list.
C17_FieldsListUnchanged == [][fields' = fields]_vars

(***************************************************************************)
(* SolrCollection.fetch (specification FetchSpec)                          *)
(***************************************************************************)
\* num_rows=None
NoneRows == -1

\* SolrCollection.fetch after pre_fetch has stored numFound: what it
\* returns, and the rows= of the second request (NoneRows when there is none)
fetch(num_found, max_rows, num_rows) ==
    IF num_rows = NoneRows
    THEN IF num_found > max_rows
         THEN [ret |-> "None", asked |-> NoneRows]
         ELSE [ret |-> "docs", asked |-> num_found]
    ELSE [ret |-> "docs",
          asked |-> IF num_rows > num_found THEN num_found ELSE num_rows]

\* SolrCollection.__init__: max_rows as given, num_found = 0
FetchInit ==
    /\ pc = "idle"
    /\ args = NoArgs
    /\ fields = <<"food", "talk">>
    /\ pool = "none"
    /\ ncpu = 1
    /\ genStarted = FALSE
    /\ fileOpened = FALSE
    /\ rows = <<>>
    /\ jobs = <<>>
    /\ syncPosts = <<>>
    /\ err = "none"
    /\ nextId = 0
    /\ encIn = NoEnc
    /\ encOut = [state |-> "idle"]
    /\ coll \in [max_rows : 0..MaxFound, num_found : {0}]
    /\ fetchOut = [state |-> "idle"]

\* a call of fetch: pre_fetch stores the numFound the server reports, then
\* the branches on num_rows
FetchCall ==
    /\ \E found \in 0..MaxFound, nr \in {NoneRows} \cup 0..MaxFound :
          LET r == fetch(found, coll.max_rows, nr)
          IN  /\ coll' = [coll EXCEPT !.num_found = found]
              /\ fetchOut' = [state |-> "done", num_rows |-> nr,
                              ret |-> r.ret, asked |-> r.asked]
    /\ UNCHANGED <<pipeVars, encVars>>

FetchNext == FetchCall

FetchSpec == FetchInit /\ [][FetchNext]_vars

\* C14: fetch returns None whenever num_found exceeds max_rows, also with
\* num_rows given; otherwise it returns the documents and its second
\* request asks for min(num_rows, num_found) rows, num_found when num_rows
\* is not given.
C14_NoneWheneverTooMany ==
    fetchOut.state = "done" =>
        IF coll.num_found > coll.max_rows
        THEN fetchOut.ret = "None"
        ELSE /\ fetchOut.ret = "docs"
             /\ fetchOut.asked =
                   IF fetchOut.num_rows = NoneRows \/ fetchOut.num_rows > coll.num_found
                   THEN coll.num_found
                   ELSE fetchOut.num_rows

====
